---- MODULE Spec2Model ----
(***************************************************************************)
(* Sync-state eviction sweep and account connectivity checks of            *)
(* src/src/gui/application.cpp (OCC::Application).                         *)
(*                                                                         *)
(* Two parts share the module and nothing else, as in the source:          *)
(*   - the eviction sweep Application::slotDeleteOnlineFiles with its      *)
(*     helper removeDirs, over the sync-mode journal (SyncJournalDb) and   *)
(*     the cache directory on disk: specification Spec;                    *)
(*   - the periodic connectivity check Application::slotCheckConnection    *)
(*     over the accounts of AccountManager, with the addition and removal  *)
(*     of accounts, the setup wizard, the virtual drive and the shutdown   *)
(*     of the application: specification ConnSpec.                         *)
(* SyncJournalDb, AccountState, FolderMan and the virtual-drive            *)
(* controllers are not part of the sources at hand; their operations are   *)
(* modelled from the design document and marked so.                        *)
(***************************************************************************)
EXTENDS Integers, Sequences, FiniteSets, TLC

\* ------------------------------------------------------------------ bounds

\* Idle time is counted in steps of one threshold length and saturates here.
MaxTicks == 2

\* Invocations of slotCheckConnection that may wait in the event queue at once.
MaxQueued == 2

\* The count of setup prompts saturates here.
MaxPrompts == 2

\* application.cpp:817  m_secondsSinceLastAccess > 65
IdleThreshold == 65

\* One step of the clock: a record is then exactly on the threshold after one
\* step and beyond it after two.
TickSeconds == IdleThreshold

\* ------------------------------------------------------- cache directory

\* Journal paths (relative to the cachedFiles prefix): a directory and a file
\* inside it, each able to carry a record of its own.
Paths == {"d", "d/a"}

\* Regular files below the cache root.  "d/s/b" is content of directory "d",
\* in its sub-directory "d/s", without a record of its own.
Files == {"d/a", "d/s/b"}

\* Directories on disk.  Nothing in the sweep removes a directory itself
\* (removeDirs only removes files), so they are there throughout.
DirNodes == {"d", "d/s"}

IsDir(n) == n \in DirNodes

\* dir.entryInfoList(..., QDir::DirsFirst): directories first, then by name.
Entries(dir) ==
    IF dir = "d" THEN <<"d/s", "d/a">>
    ELSE IF dir = "d/s" THEN <<"d/s/b">>
    ELSE <<>>

\* The files at or below a path.
FilesUnder(p) ==
    IF p = "d" THEN {"d/a", "d/s/b"}
    ELSE IF p = "d/s" THEN {"d/s/b"}
    ELSE {p} \cap Files

Absent == [exists |-> FALSE, writable |-> TRUE, busy |-> FALSE]
Fresh == [exists |-> TRUE, writable |-> TRUE, busy |-> FALSE]

FileStates == {Absent} \cup [exists : {TRUE}, writable : BOOLEAN, busy : BOOLEAN]

\* ----------------------------------------------------------------- journal

NoRecord == [absent |-> TRUE]

Modes == {"Online", "Offline"}
Downloads == {"None", "Partial", "Full"}

Records == [mode : Modes, down : Downloads, idle : 0..MaxTicks]

VARIABLES
    store,        \* SyncJournalDb sync-mode table: path -> record or NoRecord
    fs,           \* cache directory: file -> [exists, writable, busy]
    sweepPc,      \* slotDeleteOnlineFiles: "idle", "loop" (foreach), "file" (while loop)
    sweepList,    \* the snapshot getSyncModePaths() returned
    sweepIdx,     \* position of foreach in the snapshot
    rmFailed,     \* the while loop has had a QFile::remove fail
    undisturbed   \* nothing but the sweep has acted since the last sweep began

evictVars == <<store, fs, sweepPc, sweepList, sweepIdx, rmFailed, undisturbed>>

VARIABLES
    accounts,       \* AccountManager::instance()->accounts()
    acctState,      \* AccountState::state() of each account
    probing,        \* a connectivity probe of the account is in flight
    timerActive,    \* _checkConnectionTimer is running
    queuedChecks,   \* invocations of slotCheckConnection queued on the event loop
    prompts,        \* times _gui->slotOpenSettingsDialog() was called (saturating)
    lastProbed,     \* the accounts the latest slotCheckConnection probed
    ignoredResult   \* a probe result reached the account while it was SignedOut

VARIABLES
    vfs,            \* the virtual-drive controller singleton and the mounted drives
    vfsEnabled,     \* ConfigFile::enableVirtualFileSystem()
    phase,          \* "start", "retry" (in the constructor, before and after the first
                    \* restore()), "running", "quitting" (the settings could not be read),
                    \* "cleanup" (after slotCleanup), "terminated" (after ~Application)
    syncEnabled,    \* FolderMan::setSyncEnabled
    wizardOpen,     \* the setup wizard is showing
    wired,          \* accounts whose stateChanged signal reaches FolderMan
    folderSync,     \* accounts whose folders FolderMan lets sync
    startupCheck,   \* the check the constructor queued has not run yet
    remounted,      \* a mount signal found the account's drive mounted already
    mountFailed     \* the controller has reported a failed mount

connVars == <<accounts, acctState, probing, timerActive, queuedChecks, prompts,
              lastProbed, ignoredResult, vfs, vfsEnabled, phase, syncEnabled,
              wizardOpen, wired, folderSync, startupCheck, remounted, mountFailed>>

vars == <<evictVars, connVars>>

HasRecord(st, p) == st[p] # NoRecord

\* What secondsSinceLastAccess yields for a path without a record: no duration.
NotFoundError == -1

\* SyncJournalDb::secondsSinceLastAccess: fails for a path without a record.
secondsSinceLastAccess(st, p) ==
    IF HasRecord(st, p) THEN st[p].idle * TickSeconds ELSE NotFoundError

\* SyncJournalDb::getSyncMode: a path without a record has no mode.
getSyncMode(st, p) == IF HasRecord(st, p) THEN st[p].mode ELSE "absent"

\* SyncJournalDb::getSyncModeDownload
getSyncModeDownload(st, p) == IF HasRecord(st, p) THEN st[p].down ELSE "absent"

\* SyncJournalDb::deleteSyncMode
deleteSyncMode(st, p) == [st EXCEPT ![p] = NoRecord]

\* Every ordering of a finite set, as sequences: the order in which
\* getSyncModePaths lists the table is not fixed by the caller.
Orderings(S) ==
    {s \in [1..Cardinality(S) -> S] : \A i, j \in 1..Cardinality(S) : s[i] = s[j] => i = j}

\* SyncJournalDb::getSyncModePaths: the paths of the table, called without a filter.
getSyncModePaths(st) == Orderings({p \in Paths : HasRecord(st, p)})

\* ------------------------------------------------------------- file system

\* QFile::remove: fails on a file without write permission or held open elsewhere.
CanRemove(f, n) == f[n].exists /\ f[n].writable /\ ~f[n].busy

QFileRemove(f, n) ==
    IF CanRemove(f, n) THEN [result |-> TRUE, fs |-> [f EXCEPT ![n] = Absent]]
    ELSE [result |-> FALSE, fs |-> f]

\* QFile::setPermissions(path, permissions | QFile::WriteUser)
GrantWrite(f, n) == [f EXCEPT ![n].writable = TRUE]

\* removeDirs' file branch without the second try: a failed remove is final.
RemoveFileNoRetry(f, n) == QFileRemove(f, n)

\* removeDirs, the file branch (application.cpp:758-764): remove; on failure, if the
\* file lacks WriteUser, grant it and remove once more.
RemoveFileRetry(f, n) ==
    LET first == QFileRemove(f, n)
    IN  IF first.result THEN first
        ELSE IF ~f[n].writable THEN QFileRemove(GrantWrite(f, n), n)
        ELSE first

RECURSIVE removeDirs(_, _)
RECURSIVE RemoveEntries(_, _, _)

\* The Q_FOREACH of removeDirs over the entries that exist: the first failure
\* returns at once, leaving the later entries; a finished loop returns true.
RemoveEntries(f, entries, i) ==
    IF i > Len(entries) THEN [result |-> TRUE, fs |-> f]
    ELSE LET e == entries[i]
         IN  IF IsDir(e)
             THEN LET r == removeDirs(f, e)
                  IN  IF ~r.result THEN r ELSE RemoveEntries(r.fs, entries, i + 1)
             ELSE IF ~f[e].exists THEN RemoveEntries(f, entries, i + 1)
             ELSE LET r == RemoveFileRetry(f, e)
                  IN  IF ~r.result THEN r ELSE RemoveEntries(r.fs, entries, i + 1)

removeDirs(f, dirName) ==
    IF IsDir(dirName) THEN RemoveEntries(f, Entries(dirName), 1)
    ELSE [result |-> TRUE, fs |-> f]

\* ------------------------------------------------------------------- sweep

\* The test of the sweep with a failed lookup taken for a stale path.
ShouldEvictMissingToo(st, p) ==
    \/ ~HasRecord(st, p)
    \/ /\ secondsSinceLastAccess(st, p) > IdleThreshold
       /\ getSyncMode(st, p) = "Online"

\* application.cpp:817-818: the test that selects a path for deletion.
ShouldEvict(st, p) ==
    /\ HasRecord(st, p)
    /\ secondsSinceLastAccess(st, p) > IdleThreshold
    /\ getSyncMode(st, p) = "Online"

\* foreach moves on; after the last item the handler returns.
SweepAdvance ==
    IF sweepIdx = Len(sweepList)
    THEN sweepPc' = "idle" /\ sweepList' = <<>> /\ sweepIdx' = 0
    ELSE sweepPc' = "loop" /\ sweepList' = sweepList /\ sweepIdx' = sweepIdx + 1

\* slotDeleteOnlineFiles is invoked: it takes the snapshot of the paths.
slotDeleteOnlineFiles ==
    /\ sweepPc = "idle"
    /\ \E list \in getSyncModePaths(store) :
          /\ sweepList' = list
          /\ IF list = <<>>
             THEN sweepPc' = "idle" /\ sweepIdx' = 0
             ELSE sweepPc' = "loop" /\ sweepIdx' = 1
    /\ rmFailed' = FALSE
    /\ undisturbed' = TRUE
    /\ UNCHANGED <<store, fs>>
    /\ UNCHANGED connVars

\* One pass of the foreach body (application.cpp:794-853) up to the while loop.
SweepItem ==
    /\ sweepPc = "loop"
    /\ LET item == sweepList[sweepIdx]
       IN  IF ShouldEvict(store, item)
           THEN IF IsDir(item)
                THEN \* removeDirs' result is not looked at; the records go either way
                     /\ fs' = removeDirs(fs, item).fs
                     /\ store' = deleteSyncMode(store, item)
                     /\ SweepAdvance
                     /\ UNCHANGED rmFailed
                ELSE /\ sweepPc' = "file"
                     /\ rmFailed' = FALSE
                     /\ UNCHANGED <<store, fs, sweepList, sweepIdx>>
           ELSE /\ SweepAdvance
                /\ UNCHANGED <<store, fs, rmFailed>>
    /\ UNCHANGED undisturbed
    /\ UNCHANGED connVars

\* One test of while (file.exists()) with its body (application.cpp:846-852):
\* remove and sleep while the file is there, then delete the records.
SweepFileLoop ==
    /\ sweepPc = "file"
    /\ LET item == sweepList[sweepIdx]
       IN  IF item \in Files /\ fs[item].exists
           THEN LET r == QFileRemove(fs, item)
                IN  /\ fs' = r.fs
                    /\ rmFailed' = (rmFailed \/ ~r.result)
                    /\ UNCHANGED <<store, sweepPc, sweepList, sweepIdx>>
           ELSE /\ store' = deleteSyncMode(store, item)
                /\ SweepAdvance
                /\ UNCHANGED <<fs, rmFailed>>
    /\ UNCHANGED undisturbed
    /\ UNCHANGED connVars

SweepStep == slotDeleteOnlineFiles \/ SweepItem \/ SweepFileLoop

\* ------------------------------------------- the journal's other writers

\* recordAccess / SyncJournalDb::updateLastAccess: lastAccessAt = now; creates the
\* record with syncMode Online, downloadStatus None if absent.
recordAccess(p) ==
    /\ store' = [store EXCEPT ![p] =
                    IF HasRecord(store, p) THEN [store[p] EXCEPT !.idle = 0]
                    ELSE [mode |-> "Online", down |-> "None", idle |-> 0]]
    /\ undisturbed' = FALSE
    /\ UNCHANGED <<fs, sweepPc, sweepList, sweepIdx, rmFailed>>
    /\ UNCHANGED connVars

\* setSyncMode(path, mode), called for SocketApi's SET_DOWNLOAD_MODE command
\* (application.cpp:413), a slot of the same event loop as the sweep: it runs
\* between handlers, never inside one.
setSyncMode(p, m) ==
    /\ sweepPc = "idle"
    /\ HasRecord(store, p)
    /\ store[p].mode # m
    /\ store' = [store EXCEPT ![p].mode = m]
    /\ undisturbed' = FALSE
    /\ UNCHANGED <<fs, sweepPc, sweepList, sweepIdx, rmFailed>>
    /\ UNCHANGED connVars

\* The sync engine starts to materialize a path: setDownloadStatus(path, Partial).
DownloadStart(p) ==
    /\ HasRecord(store, p)
    /\ store[p].down = "None"
    /\ store' = [store EXCEPT ![p].down = "Partial", ![p].idle = 0]
    /\ undisturbed' = FALSE
    /\ UNCHANGED <<fs, sweepPc, sweepList, sweepIdx, rmFailed>>
    /\ UNCHANGED connVars

\* The sync engine has written the content: the files of the path are on disk and
\* setDownloadStatus(path, Full).
DownloadFinish(p) ==
    /\ HasRecord(store, p)
    /\ store[p].down = "Partial"
    /\ fs' = [n \in Files |->
                IF n \in FilesUnder(p) /\ ~fs[n].exists THEN Fresh ELSE fs[n]]
    /\ store' = [store EXCEPT ![p].down = "Full", ![p].idle = 0]
    /\ undisturbed' = FALSE
    /\ UNCHANGED <<sweepPc, sweepList, sweepIdx, rmFailed>>
    /\ UNCHANGED connVars

\* The sync engine has found that the path is gone remotely: deleteRecord(path).
deleteRecord(p) ==
    /\ HasRecord(store, p)
    /\ store' = deleteSyncMode(store, p)
    /\ undisturbed' = FALSE
    /\ UNCHANGED <<fs, sweepPc, sweepList, sweepIdx, rmFailed>>
    /\ UNCHANGED connVars

\* Time passes by one step for every record.
TimePasses ==
    /\ \E p \in Paths : HasRecord(store, p) /\ store[p].idle < MaxTicks
    /\ store' = [p \in Paths |->
                    IF HasRecord(store, p) /\ store[p].idle < MaxTicks
                    THEN [store[p] EXCEPT !.idle = @ + 1]
                    ELSE store[p]]
    /\ undisturbed' = FALSE
    /\ UNCHANGED <<fs, sweepPc, sweepList, sweepIdx, rmFailed>>
    /\ UNCHANGED connVars

\* Another process opens a cached file, or closes it again.
FileBusy(n, b) ==
    /\ fs[n].exists
    /\ fs[n].busy # b
    /\ fs' = [fs EXCEPT ![n].busy = b]
    /\ undisturbed' = FALSE
    /\ UNCHANGED <<store, sweepPc, sweepList, sweepIdx, rmFailed>>
    /\ UNCHANGED connVars

\* A cached file is made read-only.
FileReadOnly(n) ==
    /\ fs[n].exists
    /\ fs[n].writable
    /\ fs' = [fs EXCEPT ![n].writable = FALSE]
    /\ undisturbed' = FALSE
    /\ UNCHANGED <<store, sweepPc, sweepList, sweepIdx, rmFailed>>
    /\ UNCHANGED connVars

\* ------------------------------------------------------------ connectivity

Accts == {"a1", "a2"}

States == {"SignedOut", "Connecting", "Connected", "ConfigurationError", "AskingCredentials"}

\* What a connectivity probe reports.
ProbeResults == {"Success", "ConfigurationError", "AuthRequired", "Unreachable"}

Min(a, b) == IF a < b THEN a ELSE b

\* Timers and queued invocations are delivered as long as anything is left of
\* the application.
EventLoopRunsUntilDestroyed(ph) == ph # "terminated"

\* The main event loop delivers timers, queued invocations and signals until the
\* application quits it; aboutToQuit (application.cpp:280) is its last emission.
EventLoopRuns(ph) == ph = "running"

\* ---------------------------------------------------------- virtual drive

\* The controller singleton (VfsMacController / VfsWindows): the account it was
\* last initialized for, and the accounts whose drive is mounted.
NoDrive == [account |-> "none", mounts |-> {}]

\* initialize(rootCachePath, mountPoint, account): configures without mounting.
initialize(v, a) == [v EXCEPT !.account = a]

\* mount() that tears an existing mount of the account down instead of leaving it.
mountRemount(v) ==
    IF v.account \in v.mounts THEN [v EXCEPT !.mounts = @ \ {v.account}]
    ELSE [v EXCEPT !.mounts = @ \cup {v.account}]

\* mount(): idempotent, a no-op on a drive that is mounted already.
mount(v) == [v EXCEPT !.mounts = @ \cup {v.account}]

\* unmount(): idempotent symmetrically.
unmount(v) == [v EXCEPT !.mounts = @ \ {v.account}]

\* The body of Application::slotMountVirtualDrive (application.cpp:366-403):
\* with the virtual file system enabled, initialize the singleton for the
\* account and mount.  Nothing about the account's state is asked.
MountVirtualDrive(v, a, enabled) ==
    IF enabled THEN mount(initialize(v, a)) ELSE v

\* A failed mount that leaves the drive registered as mounted.
MountVirtualDriveFailedButMounted(v, a, enabled) ==
    IF enabled THEN mount(initialize(v, a)) ELSE v

\* The body of Application::slotMountVirtualDrive when mount() fails: the
\* controller is initialized for the account, the drive is not mounted.
MountVirtualDriveFailed(v, a, enabled) ==
    IF enabled THEN initialize(v, a) ELSE v

RECURSIVE MountAll(_, _, _, _)

\* The foreach of the constructor (application.cpp:251-254) over the restored
\* accounts, as far as the drive goes.
MountAll(v, order, i, enabled) ==
    IF i > Len(order) THEN v
    ELSE MountAll(MountVirtualDrive(v, order[i], enabled), order, i + 1, enabled)

\* ------------------------------------------------------------ folder sync

\* FolderMan lets the folders of an account sync in every state but these.
CanSync(state) == state # "SignedOut" /\ state # "ConfigurationError"

\* slotAccountStateAdded that leaves FolderMan unconnected.
slotAccountStateAddedNoFolderMan(w, a) == w

\* Application::slotAccountStateAdded (application.cpp:350-364): the account's
\* stateChanged signal is connected to FolderMan::slotAccountStateChanged.
slotAccountStateAdded(w, a) == w \cup {a}

\* FolderMan::slotAccountStateChanged, run for every connected account whose
\* state changed from old to new: the accounts whose folders may sync.
FolderManAfter(fsync, w, old, new) ==
    {a \in Accts : IF a \in w /\ old[a] # new[a] THEN CanSync(new[a]) ELSE a \in fsync}

\* ------------------------------------------------------ connectivity check

\* The test of slotCheckConnection with AskingCredentials left out.
ShouldCheckButAsking(state) ==
    /\ state # "SignedOut"
    /\ state # "ConfigurationError"

\* The test of slotCheckConnection passing Connected accounts only.
ShouldCheckConnectedOnly(state) == state = "Connected"

\* application.cpp:450-452: the accounts slotCheckConnection checks.
ShouldCheck(state) ==
    /\ state # "SignedOut"
    /\ state # "ConfigurationError"
    /\ state # "AskingCredentials"

\* AccountState::checkConnectivity, the state it leaves: a re-check takes a
\* Connected account back to Connecting while the probe runs.
checkConnectivity(state) == IF state = "Connected" THEN "Connecting" ELSE state

\* A probe result applied whatever the state it finds.
ApplyResultAnyState(state, r) ==
    CASE r = "Success" -> "Connected"
      [] r = "ConfigurationError" -> "ConfigurationError"
      [] r = "AuthRequired" -> "AskingCredentials"
      [] OTHER -> "Connecting"

\* A probe result with a transport failure taken for a permanent error.
ApplyResultUnreachableFatal(state, r) ==
    IF state # "Connecting" THEN state
    ELSE CASE r = "Success" -> "Connected"
           [] r = "AuthRequired" -> "AskingCredentials"
           [] OTHER -> "ConfigurationError"

\* The state a probe result leaves: the edges out of Connecting; in any other
\* state the result is dropped.
ApplyResult(state, r) ==
    IF state # "Connecting" THEN state
    ELSE CASE r = "Success" -> "Connected"
           [] r = "ConfigurationError" -> "ConfigurationError"
           [] r = "AuthRequired" -> "AskingCredentials"
           [] OTHER -> "Connecting"

\* The timer after a check that leaves it running whatever the account list.
TimerKeptAfterCheck(list, timer) == timer

\* application.cpp:457-462: a check that finds no account stops the timer.
TimerAfterCheck(list, timer) == IF list = {} THEN FALSE ELSE timer

\* The body of Application::slotCheckConnection (application.cpp:442-463) over
\* the account list and states it finds, with the timer and the folders as
\* they were before.
CheckConnection(list, st, timer, fsync) ==
    LET checked == {a \in list : ShouldCheck(st[a])}
        newSt == [a \in Accts |->
                    IF a \in checked THEN checkConnectivity(st[a]) ELSE st[a]]
    IN  /\ acctState' = newSt
        /\ probing' = [a \in Accts |-> probing[a] \/ a \in checked]
        /\ lastProbed' = checked
        /\ folderSync' = FolderManAfter(fsync, wired', st, newSt)
        /\ timerActive' = TimerAfterCheck(list, timer)
        /\ prompts' = IF list = {} THEN Min(prompts + 1, MaxPrompts) ELSE prompts

\* Application::slotCheckConnection run from the timer or the queue.  With no
\* account, _gui->slotOpenSettingsDialog() lets the gui open the setup wizard.
slotCheckConnection ==
    /\ UNCHANGED <<accounts, ignoredResult, wired, vfs, vfsEnabled, phase, remounted, mountFailed>>
    /\ CheckConnection(accounts, acctState, timerActive, folderSync)
    /\ wizardOpen' = (wizardOpen \/ accounts = {})
    /\ syncEnabled' = (syncEnabled /\ accounts # {})

\* _checkConnectionTimer times out (connected application.cpp:260).
TimerTick ==
    /\ EventLoopRuns(phase)
    /\ timerActive
    /\ slotCheckConnection
    /\ UNCHANGED <<queuedChecks, startupCheck>>
    /\ UNCHANGED evictVars

\* The event loop delivers a queued invocation (application.cpp:264, 438), the
\* one the constructor queued first.
QueuedCheck ==
    /\ EventLoopRuns(phase)
    /\ queuedChecks > 0
    /\ queuedChecks' = queuedChecks - 1
    /\ startupCheck' = FALSE
    /\ slotCheckConnection
    /\ UNCHANGED evictVars

\* Application::slotSystemOnlineConfigurationChanged (application.cpp:435-440).
slotSystemOnlineConfigurationChanged(active) ==
    /\ EventLoopRuns(phase)
    /\ active => queuedChecks < MaxQueued
    /\ queuedChecks' = IF active THEN queuedChecks + 1 ELSE queuedChecks
    /\ UNCHANGED <<accounts, acctState, probing, timerActive, prompts, lastProbed,
                   ignoredResult>>
    /\ UNCHANGED <<vfs, vfsEnabled, phase, syncEnabled, wizardOpen, wired, folderSync,
                   startupCheck, remounted, mountFailed>>
    /\ UNCHANGED evictVars

\* The probe of an account reports back.
ProbeResult(a, r) ==
    /\ EventLoopRuns(phase)
    /\ a \in accounts
    /\ probing[a]
    /\ probing' = [probing EXCEPT ![a] = FALSE]
    /\ acctState' = [acctState EXCEPT ![a] = ApplyResult(acctState[a], r)]
    /\ folderSync' = FolderManAfter(folderSync, wired, acctState, acctState')
    /\ ignoredResult' = [ignoredResult EXCEPT ![a] = @ \/ acctState[a] = "SignedOut"]
    /\ UNCHANGED <<accounts, timerActive, queuedChecks, prompts, lastProbed>>
    /\ UNCHANGED <<vfs, vfsEnabled, phase, syncEnabled, wizardOpen, wired, startupCheck,
                   remounted, mountFailed>>
    /\ UNCHANGED evictVars

\* The user signs the account out.
SignOut(a) ==
    /\ EventLoopRuns(phase)
    /\ a \in accounts
    /\ acctState[a] # "SignedOut"
    /\ acctState' = [acctState EXCEPT ![a] = "SignedOut"]
    /\ folderSync' = FolderManAfter(folderSync, wired, acctState, acctState')
    /\ UNCHANGED <<accounts, probing, timerActive, queuedChecks, prompts, lastProbed,
                   ignoredResult>>
    /\ UNCHANGED <<vfs, vfsEnabled, phase, syncEnabled, wizardOpen, wired, startupCheck,
                   remounted, mountFailed>>
    /\ UNCHANGED evictVars

\* The user signs in again or corrects the configuration: the explicit trigger
\* that takes a settled account back to Connecting.
SignIn(a) ==
    /\ EventLoopRuns(phase)
    /\ a \in accounts
    /\ ~ShouldCheck(acctState[a])
    /\ acctState' = [acctState EXCEPT ![a] = "Connecting"]
    /\ folderSync' = FolderManAfter(folderSync, wired, acctState, acctState')
    /\ ignoredResult' = [ignoredResult EXCEPT ![a] = FALSE]
    /\ UNCHANGED <<accounts, probing, timerActive, queuedChecks, prompts, lastProbed>>
    /\ UNCHANGED <<vfs, vfsEnabled, phase, syncEnabled, wizardOpen, wired, startupCheck,
                   remounted, mountFailed>>
    /\ UNCHANGED evictVars

\* ------------------------------------------------- accounts, wizard, drive

\* AccountManager emits mountVirtualDriveForAccount (connected application.cpp:249):
\* Application::slotMountVirtualDrive runs for the account.
slotMountVirtualDrive(a) ==
    /\ EventLoopRuns(phase)
    /\ a \in accounts
    /\ vfs' = MountVirtualDrive(vfs, a, vfsEnabled)
    /\ UNCHANGED <<accounts, acctState, probing, timerActive, queuedChecks, prompts,
                   lastProbed, ignoredResult>>
    /\ remounted' = (remounted \/ (vfsEnabled /\ vfs.account = a /\ a \in vfs.mounts))
    /\ UNCHANGED <<vfsEnabled, phase, syncEnabled, wizardOpen, wired, folderSync,
                   startupCheck, mountFailed>>
    /\ UNCHANGED evictVars

\* Application::slotMountVirtualDrive with a mount() that fails: the controller
\* reports the failure; the handler does not look at the outcome.
slotMountVirtualDriveFailed(a) ==
    /\ EventLoopRuns(phase)
    /\ a \in accounts
    /\ vfsEnabled
    /\ a \notin vfs.mounts
    /\ vfs' = MountVirtualDriveFailed(vfs, a, vfsEnabled)
    /\ mountFailed' = TRUE
    /\ UNCHANGED <<accounts, acctState, probing, timerActive, queuedChecks, prompts,
                   lastProbed, ignoredResult>>
    /\ UNCHANGED <<vfsEnabled, phase, syncEnabled, wizardOpen, wired, folderSync,
                   startupCheck, remounted>>
    /\ UNCHANGED evictVars

\* AccountManager::addAccount outside the wizard: accountAdded is emitted and
\* Application::slotAccountStateAdded (application.cpp:350-364) connects the
\* account's signals.  The account starts Connecting; no timer is touched.
AccountAdded(a) ==
    /\ EventLoopRuns(phase)
    /\ a \notin accounts
    /\ accounts' = accounts \cup {a}
    /\ acctState' = [acctState EXCEPT ![a] = "Connecting"]
    /\ ignoredResult' = [ignoredResult EXCEPT ![a] = FALSE]
    /\ wired' = slotAccountStateAdded(wired, a)
    /\ folderSync' = folderSync \cup {a}
    /\ UNCHANGED <<probing, timerActive, queuedChecks, prompts, lastProbed>>
    /\ UNCHANGED <<vfs, vfsEnabled, phase, syncEnabled, wizardOpen, startupCheck,
                   remounted, mountFailed>>
    /\ UNCHANGED evictVars

\* The user opens the setup wizard to add an account (OwncloudSetupWizard::runWizard);
\* while it is open the scheduling of syncs is disabled.
runWizard ==
    /\ EventLoopRuns(phase)
    /\ ~wizardOpen
    /\ wizardOpen' = TRUE
    /\ syncEnabled' = FALSE
    /\ UNCHANGED <<accounts, acctState, probing, timerActive, queuedChecks, prompts,
                   lastProbed, ignoredResult>>
    /\ UNCHANGED <<vfs, vfsEnabled, phase, wired, folderSync, startupCheck, remounted, mountFailed>>
    /\ UNCHANGED evictVars

\* The wizard is accepted with new account a: AccountManager::addAccount emits
\* accountAdded (slotAccountStateAdded), the account starts Connecting, then
\* Application::slotownCloudWizardDone(QDialog::Accepted) (application.cpp:470-496)
\* enables sync, starts the timer and checks at once.
WizardAccepted(a) ==
    /\ EventLoopRuns(phase)
    /\ wizardOpen
    /\ a \notin accounts
    /\ accounts' = accounts \cup {a}
    /\ wired' = slotAccountStateAdded(wired, a)
    /\ syncEnabled' = TRUE
    /\ wizardOpen' = FALSE
    /\ CheckConnection(accounts', [acctState EXCEPT ![a] = "Connecting"], TRUE,
                       folderSync \cup {a})
    /\ ignoredResult' = [ignoredResult EXCEPT ![a] = FALSE]
    /\ UNCHANGED <<queuedChecks, vfs, vfsEnabled, phase, startupCheck, remounted, mountFailed>>
    /\ UNCHANGED evictVars

\* The wizard is closed without an account:
\* Application::slotownCloudWizardDone(QDialog::Rejected) enables sync, no more.
WizardRejected ==
    /\ EventLoopRuns(phase)
    /\ wizardOpen
    /\ syncEnabled' = TRUE
    /\ wizardOpen' = FALSE
    /\ UNCHANGED <<accounts, acctState, probing, timerActive, queuedChecks, prompts,
                   lastProbed, ignoredResult>>
    /\ UNCHANGED <<vfs, vfsEnabled, phase, wired, folderSync, startupCheck, remounted, mountFailed>>
    /\ UNCHANGED evictVars

\* A removal handler that wipes the journal along with the account.
StoreWipedAfterRemoval(st, a) == [p \in Paths |-> NoRecord]

\* The journal after Application::slotAccountStateRemoved (application.cpp:316-348):
\* the handler makes no call to SyncJournalDb.
StoreAfterRemoval(st, a) == st

\* AccountManager::deleteAccount removes the account (its AccountState, and with
\* it the running probe, is gone; FolderMan drops its folders) and emits
\* accountRemoved: Application::slotAccountStateRemoved (application.cpp:316-348)
\* disconnects the account's signals and, with no account left, runs the wizard.
\* The drive is not touched.
RemoveAccount(a) ==
    /\ EventLoopRuns(phase)
    /\ a \in accounts
    /\ accounts' = accounts \ {a}
    /\ acctState' = [acctState EXCEPT ![a] = "Connecting"]
    /\ probing' = [probing EXCEPT ![a] = FALSE]
    /\ ignoredResult' = [ignoredResult EXCEPT ![a] = FALSE]
    /\ lastProbed' = lastProbed \ {a}
    /\ wired' = wired \ {a}
    /\ folderSync' = folderSync \ {a}
    /\ wizardOpen' = (wizardOpen \/ accounts' = {})
    /\ syncEnabled' = (syncEnabled /\ accounts' # {})
    /\ store' = StoreAfterRemoval(store, a)
    /\ UNCHANGED <<timerActive, queuedChecks, prompts>>
    /\ UNCHANGED <<vfs, vfsEnabled, phase, startupCheck, remounted, mountFailed>>
    /\ UNCHANGED <<fs, sweepPc, sweepList, sweepIdx, rmFailed, undisturbed>>

\* -------------------------------------------------------------- shutdown

\* aboutToQuit: Application::slotCleanup (application.cpp:423-430) saves the
\* accounts and unloads the folders.  No timer is stopped, no drive unmounted.
slotCleanup ==
    /\ phase = "running"
    /\ phase' = "cleanup"
    /\ folderSync' = {}
    /\ UNCHANGED <<accounts, acctState, probing, timerActive, queuedChecks, prompts,
                   lastProbed, ignoredResult>>
    /\ UNCHANGED <<vfs, vfsEnabled, syncEnabled, wizardOpen, wired, startupCheck, remounted, mountFailed>>
    /\ UNCHANGED evictVars

\* Application::~Application (application.cpp:288-314): folders unloaded, the
\* account manager shut down, and with the virtual file system enabled one
\* unmount() of the controller singleton.
DestroyApplication ==
    /\ phase \in {"cleanup", "quitting"}
    /\ phase' = "terminated"
    /\ folderSync' = {}
    /\ accounts' = {}
    /\ vfs' = IF vfsEnabled THEN unmount(vfs) ELSE vfs
    /\ timerActive' = FALSE
    /\ UNCHANGED <<acctState, probing, queuedChecks, prompts, lastProbed, ignoredResult>>
    /\ UNCHANGED <<vfsEnabled, syncEnabled, wizardOpen, wired, startupCheck, remounted, mountFailed>>
    /\ UNCHANGED evictVars

\* --------------------------------------------------------------- startup

\* The constructor that gives up after the first failed restore().
AfterRestoreNoRetry(ph, ok) == IF ok THEN "running" ELSE "quitting"

\* application.cpp:203-220: where the constructor goes after a call of
\* AccountManager::restore(): on, if it succeeded; to a second call after the
\* first failure; to the request to quit, and out, after the second.
AfterRestore(ph, ok) ==
    IF ok THEN "running"
    ELSE IF ph = "start" THEN "retry"
    ELSE "quitting"

\* ------------------------------------------------------------ specification

EvictInit ==
    /\ store = [p \in Paths |-> NoRecord]
    /\ fs = [n \in Files |-> Absent]
    /\ sweepPc = "idle"
    /\ sweepList = <<>>
    /\ sweepIdx = 0
    /\ rmFailed = FALSE
    /\ undisturbed = FALSE

\* After Application::Application (application.cpp:222-264): sync enabled; the
\* restored accounts, each Connecting, connected to FolderMan and with its drive
\* mounted; the timer started and one check queued at once.
ConnInit ==
    /\ accounts \in SUBSET Accts
    /\ acctState = [a \in Accts |-> "Connecting"]
    /\ probing = [a \in Accts |-> FALSE]
    /\ timerActive = TRUE
    /\ queuedChecks = 1
    /\ prompts = 0
    /\ lastProbed = {}
    /\ ignoredResult = [a \in Accts |-> FALSE]
    /\ vfsEnabled \in BOOLEAN
    /\ \E order \in Orderings(accounts) : vfs = MountAll(NoDrive, order, 1, vfsEnabled)
    /\ phase = "running"
    /\ syncEnabled = TRUE
    /\ wizardOpen = FALSE
    /\ wired = UNION {slotAccountStateAdded({}, a) : a \in accounts}
    /\ folderSync = accounts
    /\ startupCheck = TRUE
    /\ remounted = FALSE
    /\ mountFailed = FALSE

Init ==
    /\ EvictInit
    /\ ConnInit

\* The start with no account restored and the virtual file system off.
NoAccountInit ==
    /\ Init
    /\ accounts = {}
    /\ vfsEnabled = FALSE

\* The process at the start of Application::Application, before
\* AccountManager::restore() (application.cpp:203): nothing is set up.
StartInit ==
    /\ EvictInit
    /\ accounts = {}
    /\ acctState = [a \in Accts |-> "Connecting"]
    /\ probing = [a \in Accts |-> FALSE]
    /\ timerActive = FALSE
    /\ queuedChecks = 0
    /\ prompts = 0
    /\ lastProbed = {}
    /\ ignoredResult = [a \in Accts |-> FALSE]
    /\ vfsEnabled \in BOOLEAN
    /\ vfs = NoDrive
    /\ phase = "start"
    /\ syncEnabled = FALSE
    /\ wizardOpen = FALSE
    /\ wired = {}
    /\ folderSync = {}
    /\ startupCheck = FALSE
    /\ remounted = FALSE
    /\ mountFailed = FALSE

EvictNext ==
    \/ slotDeleteOnlineFiles
    \/ SweepItem
    \/ SweepFileLoop
    \/ \E p \in Paths : recordAccess(p)
    \/ \E p \in Paths, m \in Modes : setSyncMode(p, m)
    \/ \E p \in Paths : DownloadStart(p)
    \/ \E p \in Paths : DownloadFinish(p)
    \/ \E p \in Paths : deleteRecord(p)
    \/ TimePasses
    \/ \E n \in Files, b \in BOOLEAN : FileBusy(n, b)
    \/ \E n \in Files : FileReadOnly(n)

ConnNext ==
    \/ TimerTick
    \/ QueuedCheck
    \/ \E active \in BOOLEAN : slotSystemOnlineConfigurationChanged(active)
    \/ \E a \in Accts, r \in ProbeResults : ProbeResult(a, r)
    \/ \E a \in Accts : SignOut(a)
    \/ \E a \in Accts : SignIn(a)
    \/ \E a \in Accts : slotMountVirtualDrive(a)
    \/ \E a \in Accts : slotMountVirtualDriveFailed(a)
    \/ \E a \in Accts : AccountAdded(a)
    \/ runWizard
    \/ \E a \in Accts : WizardAccepted(a)
    \/ WizardRejected
    \/ \E a \in Accts : RemoveAccount(a)
    \/ slotCleanup
    \/ DestroyApplication

\* One call of AccountManager::restore() in the constructor and what follows
\* it: the rest of the constructor after a success, nothing after a failure.
RestoreAttempt(ok) ==
    /\ phase \in {"start", "retry"}
    /\ vfsEnabled' = vfsEnabled
    /\ phase' = AfterRestore(phase, ok)
    /\ IF AfterRestore(phase, ok) = "running"
       THEN \* application.cpp:222-264, the state ConnInit describes
            /\ accounts' \in SUBSET Accts
            /\ acctState' = [a \in Accts |-> "Connecting"]
            /\ probing' = [a \in Accts |-> FALSE]
            /\ timerActive' = TRUE
            /\ queuedChecks' = 1
            /\ prompts' = 0
            /\ lastProbed' = {}
            /\ ignoredResult' = [a \in Accts |-> FALSE]
            /\ \E order \in Orderings(accounts') :
                  vfs' = MountAll(NoDrive, order, 1, vfsEnabled)
            /\ syncEnabled' = TRUE
            /\ wizardOpen' = FALSE
            /\ wired' = UNION {slotAccountStateAdded({}, a) : a \in accounts'}
            /\ folderSync' = accounts'
            /\ startupCheck' = TRUE
            /\ remounted' = FALSE
            /\ mountFailed' = FALSE
       ELSE /\ TRUE
            /\ UNCHANGED <<accounts, acctState, probing, timerActive, queuedChecks,
                           prompts, lastProbed, ignoredResult, vfs, syncEnabled,
                           wizardOpen, wired, folderSync, startupCheck, remounted,
                           mountFailed>>
    /\ UNCHANGED evictVars

\* The engine's writes to the journal, made while there is an account to sync.
EngineWrites ==
    /\ accounts # {}
    /\ \/ \E p \in Paths : recordAccess(p)
       \/ \E p \in Paths : DownloadStart(p)
       \/ \E p \in Paths : DownloadFinish(p)
       \/ \E p \in Paths : deleteRecord(p)
       \/ TimePasses

RemovalNext ==
    \/ EngineWrites
    \/ \E a \in Accts : RemoveAccount(a)

StartNext ==
    \/ \E ok \in BOOLEAN : RestoreAttempt(ok)
    \/ ConnNext

Next == EvictNext \/ ConnNext \/ RemovalNext \/ StartNext

\* The eviction sweep and the writers of the journal, no account restored.
Spec == NoAccountInit /\ [][EvictNext]_vars

\* The connectivity checks of the accounts.
ConnSpec == Init /\ [][ConnNext]_vars

\* The journal under the engine's writes and the removal of accounts.
RemovalSpec == Init /\ [][RemovalNext]_vars

\* The application from the start of its constructor.
StartSpec == StartInit /\ [][StartNext]_vars

TypeOK ==
    /\ store \in [Paths -> Records \cup {NoRecord}]
    /\ fs \in [Files -> FileStates]
    /\ sweepPc \in {"idle", "loop", "file"}
    /\ sweepIdx \in 0..Cardinality(Paths)
    /\ rmFailed \in BOOLEAN
    /\ undisturbed \in BOOLEAN
    /\ accounts \subseteq Accts
    /\ acctState \in [Accts -> States]
    /\ probing \in [Accts -> BOOLEAN]
    /\ timerActive \in BOOLEAN
    /\ queuedChecks \in 0..MaxQueued
    /\ prompts \in 0..MaxPrompts
    /\ lastProbed \subseteq Accts
    /\ ignoredResult \in [Accts -> BOOLEAN]
    /\ vfs \in [account : Accts \cup {"none"}, mounts : SUBSET Accts]
    /\ vfsEnabled \in BOOLEAN
    /\ phase \in {"start", "retry", "running", "quitting", "cleanup", "terminated"}
    /\ syncEnabled \in BOOLEAN
    /\ wizardOpen \in BOOLEAN
    /\ wired \subseteq Accts
    /\ folderSync \subseteq Accts
    /\ startupCheck \in BOOLEAN
    /\ remounted \in BOOLEAN
    /\ mountFailed \in BOOLEAN

\* ------------------------------------------------- properties of the sweep

\* No file at or below the path is left on disk.
BytesGone(f, p) == \A n \in FilesUnder(p) : ~f[n].exists

\* The step in which the sweep is through with snapshot item p.
Finishes(p) ==
    /\ sweepPc # "idle"
    /\ sweepList[sweepIdx] = p
    /\ (sweepPc' = "idle" \/ sweepIdx' = sweepIdx + 1)

\* The step in which the sweep is through with an item it had selected for deletion.
Evicts(p) == Finishes(p) /\ (sweepPc = "file" \/ ShouldEvict(store, p))

\* The step in which the sweep tries to delete the bytes of p.
Attempts(p) ==
    /\ sweepPc # "idle"
    /\ sweepList[sweepIdx] = p
    /\ \/ sweepPc = "loop" /\ ShouldEvict(store, p) /\ IsDir(p) /\ SweepItem
       \/ sweepPc = "file" /\ SweepFileLoop

\* C1: no step of a sweep changes or deletes the record of a path whose
\* syncMode is Offline, or deletes a file at or below that path, however long
\* ago the path was last accessed.
C1_OfflineNeverTouched ==
    [][SweepStep =>
         \A p \in Paths :
            (HasRecord(store, p) /\ store[p].mode = "Offline") =>
               /\ store'[p] = store[p]
               /\ \A n \in FilesUnder(p) : fs'[n].exists = fs[n].exists]_vars

C3_FailedDeletionKeepsRecord ==
    [][\A p \in Paths :
          (Finishes(p) /\ HasRecord(store, p) /\ ~BytesGone(fs', p)) =>
             store'[p] = store[p]]_vars

\* C4: a sweep that has begun can always take a step of its own that gets it
\* on: no path it cannot delete holds it up.
C4_SweepAlwaysAdvances ==
    sweepPc # "idle" => ENABLED <<SweepStep>>_vars

\* C5: a step of the sweep changes or deletes a record only if the record is
\* Online, its downloadStatus is Partial or Full, and it has been idle for
\* strictly longer than the threshold.
C5_EvictsOnlyDownloadedIdleOnline ==
    [][SweepStep =>
         \A p \in Paths :
            (HasRecord(store, p) /\ store'[p] # store[p]) =>
               /\ store[p].mode = "Online"
               /\ store[p].down \in {"Partial", "Full"}
               /\ secondsSinceLastAccess(store, p) > IdleThreshold]_vars

\* The first half of C6 alone: a sweep that ran with no other writer in between
\* leaves nothing it would select, so a second run finds nothing to do.
SweepFixpoint ==
    (sweepPc = "idle" /\ undisturbed) => \A p \in Paths : ~ShouldEvict(store, p)

\* C6: a sweep that ran undisturbed leaves a journal a second run does not
\* change, and no step of a sweep changes or removes a record whose
\* downloadStatus is already None.
C6_SweepIdempotent ==
    [][/\ (sweepPc' = "idle" /\ undisturbed') =>
             \A p \in Paths : ~ShouldEvict(store', p)
       /\ SweepStep =>
             \A p \in Paths :
                (HasRecord(store, p) /\ store[p].down = "None") => store'[p] = store[p]]_vars

\* C7: when the sweep tries to delete the bytes of a path and only missing write
\* permission stands in the way (a read-only file, none held open), it grants
\* the permission and retries, so the bytes are gone after the attempt, for a
\* single file as for the files of a directory.
C7_ReadOnlyGrantedAndRetried ==
    [][\A p \in Paths :
          (/\ Attempts(p)
           /\ \E n \in FilesUnder(p) : fs[n].exists /\ ~fs[n].writable
           /\ \A n \in FilesUnder(p) : ~fs[n].busy) =>
             BytesGone(fs', p)]_vars

\* C8: between sweeps, every record with downloadStatus Full has all the files
\* at or below its path on disk.
C8_FullHasContent ==
    sweepPc = "idle" =>
       \A p \in Paths :
          (HasRecord(store, p) /\ store[p].down = "Full") =>
             \A n \in FilesUnder(p) : fs[n].exists

\* C21: the sweep's write to a record sees what the sync engine wrote before
\* it: a step of the sweep changes or deletes a record only if the record, as it
\* is at that step, is Online and idle for longer than the threshold; an access
\* or a download recorded after the snapshot is not overwritten.
C21_SweepSeesNewerWrite ==
    [][SweepStep =>
         \A p \in Paths :
            (HasRecord(store, p) /\ store'[p] # store[p]) => ShouldEvict(store, p)]_vars

\* C24: secondsSinceLastAccess fails for a path without a record, and a sweep
\* that comes to a snapshot path whose record is gone passes it by: no record
\* and no file is changed, deleted or created.
C24_MissingRecordSkipped ==
    [][/\ \A p \in Paths :
             ~HasRecord(store', p) => secondsSinceLastAccess(store', p) = NotFoundError
       /\ (SweepItem /\ ~HasRecord(store, sweepList[sweepIdx])) =>
             /\ store' = store
             /\ fs' = fs
             /\ (sweepPc' = "idle" \/ sweepIdx' = sweepIdx + 1)]_vars

\* C24 witness: the sweep has passed directory "d", the first path of its
\* snapshot, which has no record any more, and the files below it are on disk.
C24_Witness ==
    /\ sweepPc = "loop"
    /\ sweepIdx = 2
    /\ sweepList = <<"d", "d/a">>
    /\ ~HasRecord(store, "d")
    /\ fs["d/s/b"] = Fresh
    /\ fs["d/a"] = Fresh

\* ------------------------------------------- properties of the connectivity check

Settled == {"SignedOut", "ConfigurationError", "AskingCredentials"}

\* C9: a run of the connectivity check, from the timer or from the queue, probes
\* an account only if it is Connecting or Connected, and leaves every account
\* that is SignedOut, ConfigurationError or AskingCredentials as it is: not
\* probed, its state unchanged.
C9_SettledNeverProbed ==
    [][(TimerTick \/ QueuedCheck) =>
         \A a \in Accts :
            /\ a \in lastProbed' => acctState[a] \in {"Connecting", "Connected"}
            /\ acctState[a] \in Settled =>
                  /\ a \notin lastProbed'
                  /\ acctState'[a] = acctState[a]
                  /\ probing'[a] = probing[a]]_vars

\* C9 witness: a check has just run over two accounts, probing the one that is
\* checkable and passing over the one that is signed out.
C9_Witness ==
    /\ accounts = Accts
    /\ lastProbed = {"a1"}
    /\ probing["a1"] /\ ~probing["a2"]
    /\ acctState["a2"] = "SignedOut"

\* C10: no step takes an account from SignedOut to Connected.
C10_NoSignedOutToConnected ==
    [][\A a \in Accts : acctState[a] = "SignedOut" => acctState'[a] # "Connected"]_vars

\* C10 witness: the result of a probe begun before the sign-out has arrived
\* after it, and the account is still SignedOut.
C10_Witness ==
    \E a \in accounts :
       /\ acctState[a] = "SignedOut"
       /\ ignoredResult[a]
       /\ ~probing[a]

\* ------------------------------- properties of drive, accounts and shutdown

\* C11: no drive is mounted for an account that is not authorized: whenever the
\* drive of an account is mounted, the account's state is none of SignedOut,
\* ConfigurationError and AskingCredentials, for mounts made at startup and
\* through changes of state after the mount alike.
C11_MountedOnlyIfAuthorized ==
    \A a \in accounts : a \in vfs.mounts => acctState[a] \notin Settled

\* C12: sync runs for no account that is SignedOut or in ConfigurationError:
\* whenever sync is enabled and FolderMan lets the folders of an account sync,
\* the account's state is neither of the two, also after the wizard is done.
C12_NoSyncWhenSettled ==
    \A a \in accounts :
       (syncEnabled /\ a \in folderSync) =>
          acctState[a] \notin {"SignedOut", "ConfigurationError"}

\* C12 witness: the wizard is done and sync enabled again, with one account
\* syncing and the other, signed out, not.
C12_Witness ==
    /\ accounts = Accts
    /\ syncEnabled /\ ~wizardOpen
    /\ prompts > 0
    /\ acctState["a1"] = "SignedOut" /\ "a1" \notin folderSync
    /\ acctState["a2"] = "Connected" /\ "a2" \in folderSync

\* C13: a connectivity check that finds no account calls for the setup flow and
\* stops the periodic timer, and while the account set stays empty the timer
\* stays stopped, so no periodic check fires.
C13_EmptySetStopsTimer ==
    [][/\ ((TimerTick \/ QueuedCheck) /\ accounts = {}) =>
             /\ prompts' = Min(prompts + 1, MaxPrompts)
             /\ wizardOpen'
             /\ ~timerActive'
       /\ (accounts = {} /\ accounts' = {} /\ ~timerActive) => ~timerActive']_vars

\* C13 witness: a check has found no account: the setup flow was called for
\* once and the timer is stopped.
C13_Witness ==
    /\ accounts = {}
    /\ phase = "running"
    /\ ~timerActive
    /\ prompts = 1
    /\ queuedChecks = 0
    /\ wizardOpen

\* C14: in the terminated state no drive is mounted, whatever the number of
\* accounts with the virtual file system enabled.
C14_TerminatedNothingMounted ==
    phase = "terminated" => vfs.mounts = {}

\* C15: removing an account leaves it with no running probe and no mounted
\* drive; the setup flow is called for when the removal empties the account set
\* and is not when accounts remain.
C15_RemoveStopsAndUnmounts ==
    [][\A a \in Accts :
          RemoveAccount(a) =>
             /\ ~probing'[a]
             /\ a \notin vfs'.mounts
             /\ (accounts' = {} => wizardOpen')
             /\ (accounts' # {} => wizardOpen' = wizardOpen)]_vars

C17_ProbeResultEdges ==
    [][\A a \in Accts, r \in ProbeResults :
          (ProbeResult(a, r) /\ acctState[a] = "Connecting") =>
             acctState'[a] =
                CASE r = "Success" -> "Connected"
                  [] r = "ConfigurationError" -> "ConfigurationError"
                  [] r = "AuthRequired" -> "AskingCredentials"
                  [] r = "Unreachable" -> "Connecting"]_vars

\* C17 witness: probe results have taken one account from Connecting to
\* Connected and the other to AskingCredentials.
C17_Witness ==
    /\ accounts = Accts
    /\ acctState["a1"] = "Connected" /\ ~probing["a1"]
    /\ acctState["a2"] = "AskingCredentials" /\ ~probing["a2"]

\* C18: a transport failure leaves the account Connecting, and every run of the
\* check from then on, at the timer's interval as from the queue, probes it
\* again, as long as it is neither removed nor signed out.
C18_UnreachableRetried ==
    [][\A a \in Accts :
          /\ (ProbeResult(a, "Unreachable") /\ acctState[a] \in {"Connecting", "Connected"}) =>
                acctState'[a] \in {"Connecting", "Connected"}
          /\ ((TimerTick \/ QueuedCheck) /\ a \in accounts
                /\ acctState[a] \in {"Connecting", "Connected"}) =>
                /\ a \in lastProbed'
                /\ probing'[a]
                /\ acctState'[a] = "Connecting"]_vars

\* C18 witness: the probe of a Connecting account has failed and the account
\* is Connecting, unprobed, with the timer running.
C18_Witness ==
    /\ accounts = {"a1"}
    /\ acctState["a1"] = "Connecting"
    /\ lastProbed = {"a1"}
    /\ ~probing["a1"]
    /\ timerActive
    /\ phase = "running"

\* The queued invocations of slotCheckConnection that network signals caused.
SignalChecks == queuedChecks - (IF startupCheck THEN 1 ELSE 0)

\* C19: network signals are debounced: a signal that arrives while a recheck
\* caused by an earlier signal is still queued queues no further one.
C19_SignalsCoalesce ==
    [][(slotSystemOnlineConfigurationChanged(TRUE) /\ SignalChecks >= 1) =>
          queuedChecks' = queuedChecks]_vars

C22_RemovalKeepsRecords ==
    [][/\ \A a \in Accts : RemoveAccount(a) => store' = store
       /\ \A p \in Paths :
             (HasRecord(store, p) /\ ~HasRecord(store', p)) => deleteRecord(p)]_vars

\* C22 witness: the last account was removed while both paths had a record, one
\* of them fully downloaded, and the records are there.
C22_Witness ==
    /\ accounts = {}
    /\ wizardOpen
    /\ HasRecord(store, "d")
    /\ HasRecord(store, "d/a")
    /\ store["d/a"].down = "Full"

C25_TimerRunsWithAccounts ==
    (accounts # {} /\ phase = "running") => timerActive

\* C26: while the account set stays empty the setup flow is called for at most
\* once: with no account and the flow called for already (by the removal
\* handler, which opens the wizard, or by the check, which stops the timer), no
\* step calls for it again.
C26_PromptedOnce ==
    [][(accounts = {} /\ accounts' = {} /\ (wizardOpen \/ ~timerActive)) =>
          prompts' = prompts]_vars

\* C27: a mounted drive stays bound to its account: no step leaves the drive of
\* an account mounted while the controller is bound to another account.
C27_MountStaysBound ==
    [][\A a \in Accts :
          (a \in vfs.mounts /\ vfs.account = a) =>
             (a \in vfs'.mounts => vfs'.account = a)]_vars

\* C28: the account settings are read at most twice at startup; after the first
\* failure the constructor reads them again, after the second the application
\* is quitting, and then no timer runs, no check is queued or run, no account
\* is probed and no drive is mounted.
C28_RestoreRetriedOnceThenQuit ==
    [][/\ (RestoreAttempt(FALSE) /\ phase = "start") => phase' = "retry"
       /\ (RestoreAttempt(FALSE) /\ phase = "retry") => phase' = "quitting"
       /\ phase' \in {"retry", "quitting"} =>
             /\ ~timerActive'
             /\ queuedChecks' = 0
             /\ lastProbed' = {}
             /\ \A a \in Accts : ~probing'[a]
             /\ vfs'.mounts = {}
             /\ accounts' = {}
       /\ phase = "quitting" =>
             ~(TimerTick \/ QueuedCheck \/ \E a \in Accts : slotMountVirtualDrive(a))]_vars

\* C28 witness: both reads have failed and the application is quitting.
C28_Witness ==
    /\ phase = "quitting"
    /\ ~timerActive
    /\ queuedChecks = 0

====
